---- MODULE Spec2Model ----
(***************************************************************************)
(* Model of the waypoint planning agent (src/agent/agent.py): the         *)
(* conflict-resolution scheduler, the integrity helpers and the /plan      *)
(* request handler with its planning, execution and synthesis stages.      *)
(*                                                                         *)
(* Texts are modelled by their structure: a timestamp text is a record    *)
(* [fmt, day, hm] (format of the string, day number, minute of the day),   *)
(* a log line is a record [kind, ...], a JSON object is a function from    *)
(* its keys to its values.                                                 *)
(***************************************************************************)
EXTENDS Integers, Sequences, FiniteSets, TLC

VARIABLES
    sched_plan,     \* scheduler harness: the plan dict handed to enforce_no_overlaps
    sched_prev,     \* scheduler harness: the plan dict before the last run
    sched_input,    \* scheduler harness: the itinerary originally given
    sched_runs,     \* scheduler harness: number of runs of enforce_no_overlaps so far
    _trip_dates,    \* module global: trip dates kept for the event filter
    pc,             \* handle_plan_request: position of the handler
    msg,            \* handle_plan_request: the PlanRequest being handled
    trip_context,   \* handle_plan_request: the context extract_trip_context returned
    logs,           \* handle_plan_request: the local list logs
    tool_plan,      \* handle_plan_request: the parsed list of planned tasks
    task_i,         \* handle_plan_request: index of the next task of the execution loop
    tool_results,   \* handle_plan_request: the {tool, query, result} triples
    fresh_results,  \* what the same tool answers yield in a process that handled no request before
    clarification_needed,   \* handle_plan_request: local flag
    all_questions,  \* handle_plan_request: local list of suggested questions
    response,       \* the AgentPlanResponse returned for the request
    calls,          \* calls made for the current request: planning model, tools, synthesis model
    plan_reply,     \* what the planning model call of the current request produced
    synth_reply,    \* what the synthesis model call of the current request produced
    refine_reply,   \* handle_refine_request: what the refinement model call produced
    backend_response,   \* what the backend's /refine endpoint returned
    fun_in,         \* function harness: the function applied and its arguments
    fun_out         \* function harness: the result of the application

sched_vars == <<sched_plan, sched_prev, sched_input, sched_runs>>

handler_vars ==
    <<_trip_dates, pc, msg, trip_context, logs, tool_plan, task_i, tool_results,
      fresh_results, clarification_needed, all_questions, response, calls,
      plan_reply, synth_reply>>

refine_vars == <<refine_reply, backend_response>>

fun_vars == <<fun_in, fun_out>>

vars == <<sched_vars, handler_vars, refine_vars, fun_vars>>

(***************************************************************************)
(* Bounds                                                                  *)
(***************************************************************************)
MaxItems == 3
\* longest text, in tokens, the planning model returns
MaxPlanText == 3

(***************************************************************************)
(* Generic helpers: Python dict and list primitives                        *)
(***************************************************************************)
\* d.get(k, dflt)
Get(d, k, dflt) == IF k \in DOMAIN d THEN d[k] ELSE dflt

\* d[k] = v
Put(d, k, v) == [x \in (DOMAIN d) \cup {k} |-> IF x = k THEN v ELSE d[x]]

\* the set of the elements of a list
Range(s) == {s[i] : i \in DOMAIN s}

\* all lists over S of length at most n
SeqsUpTo(S, n) == UNION {[1..k -> S] : k \in 0..n}

(***************************************************************************)
(* Timestamp texts and _parse_iso                                          *)
(***************************************************************************)
\* result of _parse_iso for a missing or unparsable text (Python None)
None == -1

\* a missing / None / empty startTime or endTime
NoText == [fmt |-> "none", day |-> 0, hm |-> 0]
\* a text strptime rejects, e.g. "tomorrow"
BadText == [fmt |-> "bad", day |-> 0, hm |-> 0]
\* "2025-11-<day>T<hh>:<mm>:00"
Full(day, hm) == [fmt |-> "full", day |-> day, hm |-> hm]
\* "2025-11-<day>T<hh>:<mm>" (16 characters, seconds appended by the parser)
Short(day, hm) == [fmt |-> "short", day |-> day, hm |-> hm]
\* "2025-11-<day> <hh>:<mm>:00" (blank replaced by T by the parser)
Spaced(day, hm) == [fmt |-> "space", day |-> day, hm |-> hm]

\* the instant, in minutes, of a parsable text; None otherwise
_parse_iso(s) ==
    IF s.fmt = "none" THEN None
    ELSE IF s.fmt \in {"full", "short", "space"} THEN s.day * (24 * 60) + s.hm
    ELSE None

(***************************************************************************)
(* _conflicts and enforce_no_overlaps                                      *)
(***************************************************************************)
DefaultDurationMinutes == 90
BufferMinutes == 30

\* a _conflicts without the early return for a missing start
_conflicts_unguarded(a, b, buffer_minutes) ==
    LET sa == _parse_iso(a.startTime)
        ea0 == _parse_iso(a.endTime)
        sb0 == _parse_iso(b.startTime)
        eb0 == _parse_iso(b.endTime)
        ea1 == IF ea0 = None THEN sa + DefaultDurationMinutes ELSE ea0
        eb == IF eb0 = None THEN sb0 + DefaultDurationMinutes ELSE eb0
    IN  sa < eb /\ sb0 - buffer_minutes < ea1 + buffer_minutes

_conflicts(a, b, buffer_minutes) ==
    LET sa == _parse_iso(a.startTime)
        ea0 == _parse_iso(a.endTime)
        sb0 == _parse_iso(b.startTime)
        eb0 == _parse_iso(b.endTime)
    IN  IF sa = None \/ sb0 = None THEN FALSE
        ELSE LET ea1 == IF ea0 = None THEN sa + DefaultDurationMinutes ELSE ea0
                 eb == IF eb0 = None THEN sb0 + DefaultDurationMinutes ELSE eb0
                 ea == ea1 + buffer_minutes
                 sb == sb0 - buffer_minutes
             IN  sa < eb /\ sb < ea

\* datetime.max, the sort key of an item without a usable start: later than
\* every instant a text of the model denotes
MaxInstant == 1000 * 31 * 24 * 60

keyfn(x) ==
    LET t == _parse_iso(x.startTime)
    IN  IF t = None THEN MaxInstant ELSE t

\* list.sort(key=keyfn): stable, ascending
RECURSIVE InsertStable(_, _)
InsertStable(sorted, x) ==
    IF sorted = <<>> THEN <<x>>
    ELSE IF keyfn(sorted[Len(sorted)]) <= keyfn(x) THEN Append(sorted, x)
    ELSE Append(InsertStable(SubSeq(sorted, 1, Len(sorted) - 1), x), sorted[Len(sorted)])

\* a sort that leaves the list as it is
SortItemsNot(items) == items

RECURSIVE SortItems(_)
SortItems(items) ==
    IF items = <<>> THEN <<>>
    ELSE InsertStable(SortItems(SubSeq(items, 1, Len(items) - 1)), items[Len(items)])

\* one step of the greedy walk: an item goes to removed when it conflicts
\* with any already kept item, else to kept
WalkStep(acc, item) ==
    IF \E i \in DOMAIN acc.kept : _conflicts(item, acc.kept[i], BufferMinutes)
    THEN [kept |-> acc.kept, removed |-> Append(acc.removed, item)]
    ELSE [kept |-> Append(acc.kept, item), removed |-> acc.removed]

\* a walk that compares each item with its immediate predecessor only
RECURSIVE WalkPrevOnly(_)
WalkPrevOnly(items) ==
    IF items = <<>> THEN [kept |-> <<>>, removed |-> <<>>]
    ELSE LET n == Len(items)
             acc == WalkPrevOnly(SubSeq(items, 1, n - 1))
         IN  IF n > 1 /\ _conflicts(items[n], items[n - 1], BufferMinutes)
             THEN [kept |-> acc.kept, removed |-> Append(acc.removed, items[n])]
             ELSE [kept |-> Append(acc.kept, items[n]), removed |-> acc.removed]

RECURSIVE Walk(_)
Walk(items) ==
    IF items = <<>> THEN [kept |-> <<>>, removed |-> <<>>]
    ELSE WalkStep(Walk(SubSeq(items, 1, Len(items) - 1)), items[Len(items)])

\* f"conflict_removed: '{title}' at {startTime}"
ConflictLog(r) == [kind |-> "conflict_removed", title |-> r.title, at |-> r.startTime]

ConflictLogs(removed) == [i \in DOMAIN removed |-> ConflictLog(removed[i])]

\* a logs value that is not a list (a string, a number, null), encoded as a
\* distinguished value no list of log lines equals
NotAList == <<[kind |-> "notalist"]>>

IsList(v) == v # NotAList

enforce_no_overlaps(plan) ==
    LET items == Get(plan, "itinerary", <<>>)
        logs0 == Get(plan, "logs", <<>>)
        \* a logs value that is not a list is replaced by a fresh list in the plan
        plan1 == IF IsList(logs0) THEN plan ELSE Put(plan, "logs", <<>>)
        sorted == SortItems(items)
        \* items.sort() sorts the plan's own list in place
        plan2 == IF "itinerary" \in DOMAIN plan1 THEN Put(plan1, "itinerary", sorted) ELSE plan1
        w == Walk(sorted)
    IN  IF w.removed = <<>> THEN plan2
        ELSE LET plan3 == Put(plan2, "itinerary", w.kept)
             IN  \* the appended lines reach the plan only when logs is the plan's own list
                 IF "logs" \in DOMAIN plan3
                 THEN Put(plan3, "logs", plan3["logs"] \o ConflictLogs(w.removed))
                 ELSE plan3

(***************************************************************************)
(* Plan requests and extract_trip_context                                  *)
(***************************************************************************)
\* _trip_dates before any date was stored; dates are days of November 2025
NoDates == [start_date |-> 0, end_date |-> 0]

\* a chat message in whose content the date pattern finds the dates "dates"
Message(role, dates) == [role |-> role, dates |-> dates]

\* an itinerary item of a request
RequestItem(startTime) ==
    [id |-> "r1", title |-> "Booked", startTime |-> startTime, endTime |-> NoText]

PlanRequest(history, itinerary) ==
    [conversation_history |-> history, itinerary |-> itinerary]

DatedHistory == <<Message("user", <<23, 21>>)>>

PlanRequests ==
    { PlanRequest(<<>>, <<>>),
      PlanRequest(DatedHistory, <<>>),
      PlanRequest(<<>>, <<RequestItem(Full(21, 600))>>),
      PlanRequest(DatedHistory, <<RequestItem(Full(21, 600))>>),
      PlanRequest(DatedHistory, <<RequestItem(NoText)>>) }

\* conversation_history[-5:]
HistoryWindow == 5

LastN(s, n) == IF Len(s) <= n THEN s ELSE SubSeq(s, Len(s) - n + 1, Len(s))

SeqMin(s) == CHOOSE x \in Range(s) : \A y \in Range(s) : x <= y
SeqMax(s) == CHOOSE x \in Range(s) : \A y \in Range(s) : x >= y

\* item['startTime'].split('T')[0] of every item that has a startTime
RECURSIVE ItemDates(_)
ItemDates(itinerary) ==
    IF itinerary = <<>> THEN <<>>
    ELSE LET n == Len(itinerary)
             rest == ItemDates(SubSeq(itinerary, 1, n - 1))
         IN  IF itinerary[n].startTime.fmt = "none" THEN rest
             ELSE Append(rest, itinerary[n].startTime.day)

\* the dates the pattern finds in the given messages, in order
RECURSIVE MessageDates(_)
MessageDates(messages) ==
    IF messages = <<>> THEN <<>>
    ELSE LET n == Len(messages)
         IN  MessageDates(SubSeq(messages, 1, n - 1)) \o messages[n].dates

DateRange(dates) == [start_date |-> SeqMin(dates), end_date |-> SeqMax(dates)]

\* Result: whether the call raised, the value of the global _trip_dates after
\* it, and the trip dates written into the returned context (NoDates: none).
\* The local "dates" is bound only inside "if current_itinerary:"; reading it
\* in "if conversation_history and not dates" with an empty itinerary and a
\* non-empty history raises UnboundLocalError.
extract_trip_context(conversation_history, current_itinerary, trip_dates) ==
    LET dates == ItemDates(current_itinerary)
        from_items == current_itinerary # <<>> /\ dates # <<>>
        conv == MessageDates(LastN(conversation_history, HistoryWindow))
    IN  IF current_itinerary = <<>> /\ conversation_history # <<>>
        THEN [raised |-> TRUE, trip_dates |-> trip_dates, context |-> NoDates]
        ELSE IF from_items
        THEN [raised |-> FALSE, trip_dates |-> DateRange(dates), context |-> DateRange(dates)]
        ELSE IF conversation_history # <<>> /\ conv # <<>>
        THEN [raised |-> FALSE, trip_dates |-> DateRange(conv), context |-> DateRange(conv)]
        ELSE [raised |-> FALSE, trip_dates |-> trip_dates, context |-> NoDates]

(***************************************************************************)
(* Texts of the planning model and safe_json_from_prefill_array            *)
(***************************************************************************)
\* A text is a list of tokens: brackets, commas, complete JSON values and
\* stretches of prose.
LBracket == [t |-> "["]
RBracket == [t |-> "]"]
Comma == [t |-> ","]
Prose == [t |-> "prose"]
ValueTok(v) == [t |-> "value", v |-> v]

\* {"tool_name": ..., "query": ...}
Task(tool_name, query) == [tool_name |-> tool_name, query |-> query]

\* a JSON value that is not an object
NumberValue == [number |-> 7]

IsDict(v) == "number" \notin DOMAIN v

AVAILABLE_TOOLS == {"search_hotels", "search_events", "search_flights"}

\* a query text, by what the patterns of the flight parser find in it: the
\* "<origin> to <destination>" pair (or none) and the ISO dates
Query(od, dates) == [od |-> od, dates |-> dates]

\* "Seattle downtown budget", "somewhere warm"
VagueQuery == Query(<<>>, <<>>)
\* "SFO to SEA depart 2025-11-21"
FullQuery == Query(<<"SFO", "SEA">>, <<21>>)

PlanValues ==
    { Task("search_hotels", VagueQuery),
      Task("search_events", VagueQuery),
      Task("search_flights", FullQuery),
      Task("search_flights", VagueQuery),
      Task("search_weather", VagueQuery),
      NumberValue }

PlanTokens == {LBracket, RBracket, Comma, Prose} \cup {ValueTok(v) : v \in PlanValues}

PlanTexts == SeqsUpTo(PlanTokens, MaxPlanText)

\* index of the first occurrence of tok in s, 0 when there is none
FirstIndex(s, tok) ==
    IF \E i \in DOMAIN s : s[i] = tok
    THEN CHOOSE i \in DOMAIN s : s[i] = tok /\ \A j \in 1..(i - 1) : s[j] # tok
    ELSE 0

\* json.loads of a text that starts with "[": the text must be "[" values
\* separated by commas "]"
\* a json.loads that stops after the first element
JsonLoadsFirstElement(s) ==
    IF Len(s) >= 2 /\ s[1] = LBracket /\ s[2].t = "value"
    THEN [ok |-> TRUE, value |-> <<s[2].v>>]
    ELSE [ok |-> FALSE, value |-> <<>>]

JsonLoadsArray(s) ==
    LET n == Len(s)
        inner == SubSeq(s, 2, n - 1)
        m == Len(inner)
        wellformed ==
            /\ n >= 2 /\ s[1] = LBracket /\ s[n] = RBracket
            /\ \/ m = 0
               \/ /\ m % 2 = 1
                  /\ \A i \in 1..m : IF i % 2 = 1 THEN inner[i].t = "value" ELSE inner[i] = Comma
    IN  IF wellformed
        THEN [ok |-> TRUE, value |-> [i \in 1..((m + 1) \div 2) |-> inner[2 * i - 1].v]]
        ELSE [ok |-> FALSE, value |-> <<>>]

safe_json_from_prefill_array(text) ==
    LET s0 == <<LBracket>> \o text
        s1 == IF FirstIndex(s0, RBracket) = 0 THEN Append(s0, RBracket) ELSE s0
        \* s.split("]")[0] + "]"
        s2 == Append(SubSeq(s1, 1, FirstIndex(s1, RBracket) - 1), RBracket)
    IN  JsonLoadsArray(s2)

(***************************************************************************)
(* The search tools                                                        *)
(***************************************************************************)
\* an outside call (SerpApi, find_flights) that raises
Raise == [raised |-> TRUE]

Raised(x) == "raised" \in DOMAIN x

\* {"error": ..., "user_prompt_needed": true, "suggested_questions": [...]}
Clarifier(error, questions) ==
    [error |-> error, user_prompt_needed |-> TRUE, suggested_questions |-> questions]

\* ---- search_real_hotels ----
HotelProviderCap == 8
HotelCap == 5

\* a property of the provider response: its name ("" when absent), and whether
\* its price is a bare string instead of a dict (norm then calls .get on a str)
Property(name, string_price) == [name |-> name, string_price |-> string_price]

HotelResponses ==
    { Raise,
      [properties |-> <<>>],
      [properties |-> <<Property("Ace Hotel", FALSE)>>],
      [properties |-> <<Property("", FALSE), Property("Ace Hotel", FALSE)>>],
      [properties |-> <<Property("Ace Hotel", TRUE)>>] }

Take(s, n) == IF Len(s) <= n THEN s ELSE SubSeq(s, 1, n)

RECURSIVE Named(_)
Named(hotels) ==
    IF hotels = <<>> THEN <<>>
    ELSE LET n == Len(hotels)
             rest == Named(SubSeq(hotels, 1, n - 1))
         IN  IF hotels[n].name = "" THEN rest ELSE Append(rest, hotels[n])

HotelQuestions ==
    << "What's your nightly budget cap (USD)?",
       "Do you want downtown or near the airport?",
       "Do you prefer 3, 4, or 5 stars?" >>

search_real_hotels(query, provider) ==
    IF Raised(provider) THEN [error |-> "provider error"]
    ELSE LET props == Take(Get(provider, "properties", <<>>), HotelProviderCap)
         IN  IF \E i \in DOMAIN props : props[i].string_price
             THEN [error |-> "'str' object has no attribute 'get'"]
             ELSE LET hotels == Take(Named([i \in DOMAIN props |-> [name |-> props[i].name]]),
                                     HotelCap)
                  IN  IF hotels = <<>>
                      THEN Clarifier("No hotels found for that query", HotelQuestions)
                      ELSE [hotels |-> hotels]

\* ---- search_real_events ----
EventCap == 12
TripEndSlackDays == 7

\* an entry of events_results: title ("" when absent) and start date (0 when absent)
RawEvent(title, start_date) == [title |-> title, start_date |-> start_date]

\* answers of the google_events engine
EventsAnswers ==
    { [events_results |-> <<>>],
      [events_results |-> <<RawEvent("Concert", 22)>>],
      [events_results |-> <<RawEvent("Festival", 35)>>] }

\* organic results of the web search: title and link ("" when absent)
Organic(title, link) == [title |-> title, link |-> link]

\* answers of the google engine (web fallback)
WebAnswers ==
    { [organic_results |-> <<>>],
      [organic_results |-> <<Organic("Tickets", "eventbrite.com/e/1")>>] }

\* answers of the three SerpApi calls of one event search
EventResponses ==
    [a : EventsAnswers \cup {Raise}, b : EventsAnswers \cup {Raise},
     c : WebAnswers \cup {Raise}]

NormalEvent(title, start_date, source) ==
    [title |-> title, start_date |-> start_date, source |-> source]

RECURSIVE FilterEvents(_, _)
FilterEvents(events, trip_dates) ==
    IF events = <<>> THEN <<>>
    ELSE LET n == Len(events)
             ev == events[n]
             rest == FilterEvents(SubSeq(events, 1, n - 1), trip_dates)
             dated == ev.title # "" /\ ev.start_date # 0
             in_trip ==
                 \/ trip_dates.start_date = 0
                 \/ trip_dates.end_date = 0
                 \/ /\ trip_dates.start_date <= ev.start_date
                    /\ ev.start_date <= trip_dates.end_date + TripEndSlackDays
         IN  IF dated /\ in_trip
             THEN Append(rest, NormalEvent(ev.title, ev.start_date, "google_events"))
             ELSE rest

\* normalize(events_raw): keeps the events with a title and a date and, when
\* the global _trip_dates holds dates, those within [start, end + 7 days]
normalize(events_raw, trip_dates) == FilterEvents(events_raw, trip_dates)

RECURSIVE WebEvents(_)
WebEvents(organic) ==
    IF organic = <<>> THEN <<>>
    ELSE LET n == Len(organic)
             r == organic[n]
             rest == WebEvents(SubSeq(organic, 1, n - 1))
         IN  IF r.title # "" /\ r.link # "" THEN Append(rest, NormalEvent(r.title, 0, "web"))
             ELSE rest

EventQuestions ==
    << "Broaden beyond the city or include nearby neighborhoods?",
       "Any specific event types (concerts, comedy, sports, museums)?",
       "Extend the date window by one day?" >>

EventError == [error |-> "provider error", user_prompt_needed |-> TRUE]

EventResult(events) ==
    IF Take(events, EventCap) = <<>>
    THEN Clarifier("No events found near the city", EventQuestions)
    ELSE [events |-> Take(events, EventCap)]

\* a search that queries the three tiers whatever they answer
GoogleSearchCallsAll(provider, trip_dates) == <<"a", "b", "c">>

\* the GoogleSearch(...).get_dict() calls of one event search, in order:
\* strict (a), relaxed (b), web fallback (c); a call that raises is the last
GoogleSearchCalls(provider, trip_dates) ==
    IF Raised(provider.a) THEN <<"a">>
    ELSE IF normalize(Get(provider.a, "events_results", <<>>), trip_dates) # <<>> THEN <<"a">>
    ELSE IF Raised(provider.b) THEN <<"a", "b">>
    ELSE IF normalize(Get(provider.b, "events_results", <<>>), trip_dates) # <<>>
         THEN <<"a", "b">>
    ELSE <<"a", "b", "c">>

\* the value of events after the last call made
search_real_events(query, provider, trip_dates) ==
    LET made == GoogleSearchCalls(provider, trip_dates)
        last == made[Len(made)]
    IN  IF Raised(provider[last]) THEN EventError
        ELSE IF last = "c"
             THEN EventResult(WebEvents(Get(provider.c, "organic_results", <<>>)))
        ELSE EventResult(normalize(Get(provider[last], "events_results", <<>>), trip_dates))

\* ---- search_real_flights ----
FlightCap == 3

\* the default city of current_profile
USER_CITY == "Berkeley, CA, USA"

\* cities set_profile may store: the default, one the table does not know,
\* and the empty text
ProfileCities == {USER_CITY, "Paris, France", ""}

\* the table of infer_home_airport on ProfileCities; "" is None
infer_home_airport(city_text) == IF city_text = USER_CITY THEN "OAK" ELSE ""

\* f"What's your preferred airport near {current_profile.city}?"
HomeHint(city) ==
    IF city = USER_CITY THEN "What's your preferred airport near Berkeley, CA, USA?"
    ELSE "What's your preferred airport near Paris, France?"

\* a flight as find_flights returns it: its price ("" when absent) and duration
RawFlight(price, duration) == [price |-> price, total_duration |-> duration]

\* find_flights raises or returns {"best": [...]}
FlightResponses ==
    { Raise,
      [best |-> <<>>],
      [best |-> <<RawFlight("199", "125")>>],
      [best |-> <<RawFlight("", "125")>>] }

_shrink_item(f) ==
    [title |-> "Departing flight", total_price |-> f.price, out_duration |-> f.total_duration]

MissingFieldQuestions ==
    << "What cities or airports are you flying between?",
       "What is your departure date in YYYY-MM-DD?",
       "Do you need a return date?" >>

NoFlightQuestions ==
    << "Are you open to connections or different times?",
       "What's your max budget for flights?",
       "Should I expand the date window by one day?" >>

FlightError == [error |-> "provider error", user_prompt_needed |-> TRUE]

\* a search_real_flights that calls find_flights before it looks for
\* missing fields
search_flights_call_first(query, provider, city) ==
    IF Raised(provider) THEN FlightError
    ELSE Clarifier("Missing origin/destination/depart_date", MissingFieldQuestions)

search_real_flights(query, provider, city) ==
    LET origin == IF query.od # <<>> THEN query.od[1] ELSE infer_home_airport(city)
        destination == IF query.od # <<>> THEN query.od[2] ELSE ""
        depart_date == IF query.dates # <<>> THEN query.dates[1] ELSE 0
        query_parsed == [origin |-> origin, destination |-> destination,
                         depart_date |-> depart_date]
    IN  IF origin = "" \/ destination = "" \/ depart_date = 0
        THEN Clarifier("Missing origin/destination/depart_date",
                       IF origin = "" /\ city # ""
                       THEN <<HomeHint(city)>> \o MissingFieldQuestions
                       ELSE MissingFieldQuestions)
        ELSE IF Raised(provider) THEN FlightError
        ELSE LET bucket == Take(Get(provider, "best", <<>>), FlightCap)
                 best == [i \in DOMAIN bucket |-> _shrink_item(bucket[i])]
             IN  IF best = <<>>
                 THEN Put(Clarifier("No flights found for the given parameters",
                                    NoFlightQuestions), "query_parsed", query_parsed)
                 ELSE [query_parsed |-> query_parsed,
                       results |-> [best |-> best, other |-> <<>>]]

\* the answers the outside services may give to the call of one tool
ToolResponses(name) ==
    IF name = "search_hotels" THEN HotelResponses
    ELSE IF name = "search_events" THEN EventResponses
    ELSE FlightResponses

\* AVAILABLE_TOOLS[name](q): the JSON text the tool returns, as the value it
\* encodes; current_profile is the default profile while plan requests run
RunTool(name, q, provider, trip_dates) ==
    IF name = "search_hotels" THEN search_real_hotels(q, provider)
    ELSE IF name = "search_events" THEN search_real_events(q, provider, trip_dates)
    ELSE search_real_flights(q, provider, USER_CITY)

(***************************************************************************)
(* handle_plan_request: start of the handler and the planning stage        *)
(***************************************************************************)
LogLine(kind) == [kind |-> kind]

NoRequest == PlanRequest(<<>>, <<>>)
NoResponse == [none |-> TRUE]
NoCalls == [plan |-> 0, tools |-> 0, synth |-> 0]
\* the model has not been called for the current request
NoReply == [none |-> TRUE]

\* AgentPlanResponse(status="error", itinerary=[], logs=logs, locations=[])
ErrorResponse(ls) ==
    [status |-> "error", itinerary |-> <<>>, logs |-> ls, locations |-> <<>>,
     options |-> <<>>]

LocalsReset ==
    /\ logs' = <<>>
    /\ tool_plan' = <<>>
    /\ task_i' = 1
    /\ tool_results' = <<>>
    /\ fresh_results' = <<>>
    /\ clarification_needed' = FALSE
    /\ all_questions' = <<>>
    /\ response' = NoResponse
    /\ calls' = NoCalls
    /\ plan_reply' = NoReply
    /\ synth_reply' = NoReply

\* a request arrives; the handler runs up to the planning model call
StartRequest ==
    /\ pc \in {"idle", "done", "raised", "refined"}
    /\ \E m \in PlanRequests :
          LET r == extract_trip_context(m.conversation_history, m.itinerary, _trip_dates)
          IN  /\ msg' = m
              /\ _trip_dates' = r.trip_dates
              /\ trip_context' = r.context
              /\ pc' = IF r.raised THEN "raised" ELSE "planning"
    /\ LocalsReset
    /\ refine_reply' = NoReply
    /\ backend_response' = NoResponse
    /\ UNCHANGED <<sched_vars, fun_vars>>

\* the planning model raises or returns a text
PlanOutcomes ==
    {[raised |-> TRUE, text |-> <<>>]} \cup {[raised |-> FALSE, text |-> t] : t \in PlanTexts}

\* a planning try block that catches only the model call that raises
PlanFailedOnRaise(out) == out.raised

\* the planning try block catches a model call that raises and a text that
\* safe_json_from_prefill_array cannot parse
PlanFailed(out) == out.raised \/ ~safe_json_from_prefill_array(out.text).ok

\* the planning try block: model call, safe_json_from_prefill_array, and the
\* except branch that returns the error response
PlanStage ==
    /\ pc = "planning"
    /\ \E out \in PlanOutcomes :
          LET parsed == safe_json_from_prefill_array(out.text)
              logs1 == Append(logs, LogLine("planning"))
          IN  /\ plan_reply' = out
              /\ IF PlanFailed(out)
                 THEN /\ logs' = Append(logs1, LogLine("error_planning"))
                      /\ response' = ErrorResponse(logs')
                      /\ tool_plan' = tool_plan
                      /\ pc' = "done"
                 ELSE /\ logs' = logs1 \o <<[kind |-> "plan_steps", plan |-> parsed.value],
                                           LogLine("executing")>>
                      /\ response' = response
                      /\ tool_plan' = parsed.value
                      /\ pc' = "executing"
    /\ calls' = [calls EXCEPT !.plan = @ + 1]
    /\ UNCHANGED <<sched_vars, refine_vars, fun_vars, _trip_dates, msg, trip_context, task_i, tool_results,
                   fresh_results, clarification_needed, all_questions, synth_reply>>

(***************************************************************************)
(* handle_plan_request: the execution loop and the clarification scan      *)
(***************************************************************************)
Triple(tool, query, result) == [tool |-> tool, query |-> query, result |-> result]

\* _trip_dates as the same request leaves it in a process that served no
\* request before
FreshTripDates ==
    extract_trip_context(msg.conversation_history, msg.itinerary, NoDates).trip_dates

\* one iteration of the loop over tool_plan; fresh_results records what the
\* same provider answers give with FreshTripDates
ExecuteTask ==
    /\ pc = "executing"
    /\ task_i <= Len(tool_plan)
    /\ LET task == tool_plan[task_i]
       IN  IF ~IsDict(task)
           THEN \* task.get(...) on a value that is no dict raises outside any try
                /\ pc' = "raised"
                /\ UNCHANGED <<logs, tool_results, fresh_results, task_i, calls>>
           ELSE IF task.tool_name \in AVAILABLE_TOOLS
           THEN /\ \E provider \in ToolResponses(task.tool_name) :
                      /\ tool_results' = Append(tool_results,
                             Triple(task.tool_name, task.query,
                                    RunTool(task.tool_name, task.query, provider, _trip_dates)))
                      /\ fresh_results' = Append(fresh_results,
                             Triple(task.tool_name, task.query,
                                    RunTool(task.tool_name, task.query, provider,
                                            FreshTripDates)))
                /\ logs' = Append(logs, [kind |-> "ok", tool |-> task.tool_name])
                /\ calls' = [calls EXCEPT !.tools = @ + 1]
                /\ task_i' = task_i + 1
                /\ pc' = pc
           ELSE /\ logs' = Append(logs, [kind |-> "unknown_tool", tool |-> task.tool_name])
                /\ task_i' = task_i + 1
                /\ pc' = pc
                /\ UNCHANGED <<tool_results, fresh_results, calls>>
    /\ UNCHANGED <<sched_vars, refine_vars, fun_vars, _trip_dates, msg, trip_context, tool_plan,
                   clarification_needed, all_questions, response, plan_reply, synth_reply>>

Signals(result) == Get(result, "user_prompt_needed", FALSE)

\* all_questions: the suggested questions of the results that signal, in order
RECURSIVE Questions(_)
Questions(results) ==
    IF results = <<>> THEN <<>>
    ELSE LET n == Len(results)
             r == results[n].result
         IN  Questions(SubSeq(results, 1, n - 1))
             \o (IF Signals(r) THEN Get(r, "suggested_questions", <<>>) ELSE <<>>)

\* the warning lines, one per signalling result that has an error text
RECURSIVE Warnings(_)
Warnings(results) ==
    IF results = <<>> THEN <<>>
    ELSE LET n == Len(results)
             r == results[n].result
         IN  Warnings(SubSeq(results, 1, n - 1))
             \o (IF Signals(r) /\ Get(r, "error", "") # ""
                 THEN <<[kind |-> "warning", error |-> r.error]>> ELSE <<>>)

\* f"  {i}. {question}"
QuestionLine(i, q) == [kind |-> "question", n |-> i, text |-> q]

QuestionLines(questions) ==
    IF questions = <<>> THEN <<>>
    ELSE <<LogLine("questions_header")>>
         \o [i \in DOMAIN questions |-> QuestionLine(i, questions[i])]
         \o <<LogLine("questions_footer")>>

\* the loop is over: scan of tool_results for clarification signals
CollectClarifications ==
    /\ pc = "executing"
    /\ task_i > Len(tool_plan)
    /\ clarification_needed' = (\E i \in DOMAIN tool_results : Signals(tool_results[i].result))
    /\ all_questions' = Questions(tool_results)
    /\ logs' = logs \o Warnings(tool_results) \o QuestionLines(Questions(tool_results))
    /\ pc' = "synthesis"
    /\ UNCHANGED <<sched_vars, refine_vars, fun_vars, _trip_dates, msg, trip_context, tool_plan, task_i,
                   tool_results, fresh_results, response, calls, plan_reply, synth_reply>>

(***************************************************************************)
(* Texts of the synthesis model and safe_json_from_prefill_object          *)
(***************************************************************************)
LBrace == [t |-> "{"]
RBrace == [t |-> "}"]
\* the members of the JSON object o, without the braces
Members(o) == [t |-> "members", v |-> o]
\* three backquotes, "json" and a newline
FenceJson == [t |-> "fence_json"]
\* three backquotes
Fence == [t |-> "fence"]

\* s.split(tok)[0]
Segment0(s, tok) ==
    IF FirstIndex(s, tok) = 0 THEN s ELSE SubSeq(s, 1, FirstIndex(s, tok) - 1)

\* s.split(tok)[1], for s that contains tok
Segment1(s, tok) ==
    Segment0(SubSeq(s, FirstIndex(s, tok) + 1, Len(s)), tok)

\* json.loads of a text expected to hold one object
JsonLoadsObject(s) ==
    IF Len(s) = 3 /\ s[1] = LBrace /\ s[2].t = "members" /\ s[3] = RBrace
    THEN [ok |-> TRUE, value |-> s[2].v]
    ELSE [ok |-> FALSE, value |-> [status |-> ""]]

safe_json_from_prefill_object(text) ==
    LET s == <<LBrace>> \o text
    IN  IF FirstIndex(s, FenceJson) # 0
        THEN JsonLoadsObject(Segment0(Segment1(s, FenceJson), Fence))
        ELSE IF FirstIndex(s, Fence) # 0
        THEN JsonLoadsObject(Segment1(s, Fence))
        ELSE JsonLoadsObject(s)

(***************************************************************************)
(* ensure_ids                                                              *)
(***************************************************************************)
\* str(uuid.uuid4()): the k-th identifier generated while handling a request
FreshIds == <<"uuid-1", "uuid-2", "uuid-3", "uuid-4">>

\* number of items without id among the first n
Unnamed(items, n) == Cardinality({i \in 1..n : items[i].id = ""})

\* an ensure_ids that assigns nothing
ensure_ids_nothing(plan) == plan

\* an ensure_ids that gives every item a new id
ensure_ids_every_item(plan) ==
    IF "itinerary" \notin DOMAIN plan THEN plan
    ELSE Put(plan, "itinerary",
             [i \in DOMAIN plan.itinerary |-> [plan.itinerary[i] EXCEPT !.id = FreshIds[i]]])

ensure_ids(plan) ==
    IF "itinerary" \notin DOMAIN plan THEN plan
    ELSE Put(plan, "itinerary",
             [i \in DOMAIN plan.itinerary |->
                 IF plan.itinerary[i].id = ""
                 THEN [plan.itinerary[i] EXCEPT !.id = FreshIds[Unnamed(plan.itinerary, i)]]
                 ELSE plan.itinerary[i]])

(***************************************************************************)
(* handle_plan_request: the synthesis stage                                *)
(***************************************************************************)
Item(id, title, startTime, endTime) ==
    [id |-> id, title |-> title, startTime |-> startTime, endTime |-> endTime]

Location(name, linked) ==
    [name |-> name, latitude |-> 0, longitude |-> 0, linkedItineraryId |-> linked]

\* 10:00-11:30
ItemA == Item("a", "Museum", Full(21, 600), Full(21, 690))
\* 11:00, no end: overlaps ItemA
ItemB == Item("b", "Lunch", Full(21, 660), NoText)
\* 19:00, no id
ItemC == Item("", "Dinner", Full(21, 1140), NoText)

SynthItineraries == { <<>>, <<ItemA>>, <<ItemB, ItemA>>, <<ItemA, ItemC>> }

SynthLocations == { <<>>, <<Location("Museum", "a"), Location("Cafe", "b")>> }

\* a log line written by the synthesis model
ModelNote == [kind |-> "model_note"]

\* an option written by the synthesis model
ModelOption ==
    [option_id |-> "m1", type |-> "hotel", category |-> "lodging_option",
     title |-> "Ace Hotel"]

RequiredKeys == {"status", "itinerary", "logs", "locations"}

FullObjects ==
    { [status |-> st, itinerary |-> it, logs |-> <<ModelNote>>, locations |-> loc] :
        st \in {"success", "needs_clarification"}, it \in SynthItineraries,
        loc \in SynthLocations }

BaseObject ==
    [status |-> "success", itinerary |-> <<ItemB, ItemA>>, logs |-> <<ModelNote>>,
     locations |-> <<Location("Museum", "a"), Location("Cafe", "b")>>]

Drop(o, k) == [x \in (DOMAIN o) \ {k} |-> o[x]]

PartialObjects == { Drop(BaseObject, k) : k \in RequiredKeys }

OddObjects ==
    { [BaseObject EXCEPT !.status = "partial"], [BaseObject EXCEPT !.logs = NotAList] }

\* the objects the synthesis model may write
SynthObjects ==
    FullObjects \cup PartialObjects \cup OddObjects
    \cup { Put(o, "options", <<ModelOption>>) : o \in PartialObjects \cup {BaseObject} }

\* the continuation of the prefilled brace, and texts with fences, prose or
\* no closing brace
SynthTexts ==
    { <<Members(o), RBrace>> : o \in SynthObjects }
    \cup { <<FenceJson, LBrace, Members(BaseObject), RBrace, Fence>>,
           <<Fence, LBrace, Members(BaseObject), RBrace, Fence>>,
           <<Prose, LBrace, Members(BaseObject), RBrace>>,
           <<Members(BaseObject)>>,
           <<Prose>> }

SynthOutcomes ==
    {[raised |-> TRUE, text |-> <<>>]} \cup {[raised |-> FALSE, text |-> t] : t \in SynthTexts}

\* all_flights of a search_flights result: results.best + results.other
AllFlights(result) ==
    LET results == Get(result, "results", [best |-> <<>>, other |-> <<>>])
    IN  Get(results, "best", <<>>) \o Get(results, "other", <<>>)

\* The flight loop stops at the first flight that has a total_price: its
\* out_duration is a str or None (see _shrink_item), so "duration_min // 60"
\* raises TypeError before any option is appended; the except branch logs it.
FlightExtractionFails(result) ==
    \E i \in DOMAIN AllFlights(result) : AllFlights(result)[i].total_price # ""

RECURSIVE FlightExtractionLogs(_)
FlightExtractionLogs(results) ==
    IF results = <<>> THEN <<>>
    ELSE LET n == Len(results)
         IN  FlightExtractionLogs(SubSeq(results, 1, n - 1))
             \o (IF results[n].tool = "search_flights" /\ FlightExtractionFails(results[n].result)
                 THEN <<LogLine("error_flight_options")>> ELSE <<>>)

EventOption(i, event) ==
    [option_id |-> i, type |-> "event", category |-> "activity_option",
     title |-> event.title, data |-> event]

\* the options of the events of one search_events result
EventOptionsOf(result) ==
    LET events == Get(result, "events", <<>>)
    IN  [i \in DOMAIN events |-> EventOption(i, events[i])]

RECURSIVE EventOptions(_)
EventOptions(results) ==
    IF results = <<>> THEN <<>>
    ELSE LET n == Len(results)
         IN  EventOptions(SubSeq(results, 1, n - 1))
             \o (IF results[n].tool = "search_events" THEN EventOptionsOf(results[n].result)
                 ELSE <<>>)

\* lines 1162-1266: the options of the tool results are added to the plan,
\* and a line to its logs when there are options
AddOptions(final_plan, results) ==
    LET options == Get(final_plan, "options", <<>>) \o EventOptions(results)
        plan1 == Put(final_plan, "options", options)
    IN  IF options # <<>>
        THEN Put(plan1, "logs",
                 Append(Get(plan1, "logs", <<>>), [kind |-> "options_found", n |-> Len(options)]))
        ELSE plan1

\* AgentPlanResponse(**final_plan): status, itinerary, logs and locations are required
Validates(final_plan) == RequiredKeys \subseteq DOMAIN final_plan

AgentPlanResponse(final_plan) ==
    [status |-> final_plan.status, itinerary |-> final_plan.itinerary,
     logs |-> final_plan.logs, locations |-> final_plan.locations,
     options |-> final_plan.options]

\* the synthesis try block: model call, safe_json_from_prefill_object,
\* ensure_ids, enforce_no_overlaps, options, response; and its except branch
SynthStage ==
    /\ pc = "synthesis"
    /\ \E out \in SynthOutcomes :
          LET parsed == safe_json_from_prefill_object(out.text)
              final_plan == AddOptions(enforce_no_overlaps(ensure_ids(parsed.value)),
                                       tool_results)
              logs1 == logs \o FlightExtractionLogs(tool_results)
          IN  /\ synth_reply' = out
              /\ IF out.raised \/ ~parsed.ok
                 THEN /\ logs' = Append(logs, LogLine("error_synthesis"))
                      /\ response' = ErrorResponse(logs')
                 ELSE IF ~Validates(final_plan)
                 THEN /\ logs' = Append(logs1, LogLine("error_synthesis"))
                      /\ response' = ErrorResponse(logs')
                 ELSE /\ logs' = logs1
                      /\ response' = AgentPlanResponse(final_plan)
    /\ calls' = [calls EXCEPT !.synth = @ + 1]
    /\ pc' = "done"
    /\ UNCHANGED <<sched_vars, refine_vars, fun_vars, _trip_dates, msg, trip_context, tool_plan, task_i,
                   tool_results, fresh_results, clarification_needed, all_questions,
                   plan_reply>>

(***************************************************************************)
(* handle_refine_request, and the backend endpoint that forwards to it     *)
(***************************************************************************)
RefineRequest(itinerary, locations) == [itinerary |-> itinerary, locations |-> locations]

\* plans as the user edited them: Lunch (id b) deleted while its location
\* stayed, an item added without id, an empty plan
RefineRequests ==
    { RefineRequest(<<ItemA>>, <<Location("Museum", "a"), Location("Cafe", "b")>>),
      RefineRequest(<<ItemA, ItemC>>, <<Location("Museum", "a")>>),
      RefineRequest(<<>>, <<>>) }

\* the JSON object without members
EmptyObject == [k \in {} |-> 0]

\* the texts the refinement model may return; there is no prefill, the
\* text holds the whole object
RefineTexts ==
    { <<LBrace, Members(o), RBrace>> : o \in FullObjects \cup PartialObjects \cup OddObjects }
    \cup { <<FenceJson, LBrace, Members(BaseObject), RBrace, Fence>>,
           <<Fence, LBrace, Members(BaseObject), RBrace, Fence>>,
           <<Prose, LBrace, Members(BaseObject), RBrace>>,
           <<>> }

RefineOutcomes ==
    {[raised |-> TRUE, text |-> <<>>]} \cup {[raised |-> FALSE, text |-> t] : t \in RefineTexts}

\* lines 1340-1349: content or "{}", the fences, json.loads
RefineLoads(text) ==
    LET s == IF text = <<>> THEN <<LBrace, Members(EmptyObject), RBrace>> ELSE text
    IN  IF FirstIndex(s, FenceJson) # 0
        THEN JsonLoadsObject(Segment0(Segment1(s, FenceJson), Fence))
        ELSE IF FirstIndex(s, Fence) # 0
        THEN JsonLoadsObject(Segment1(s, Fence))
        ELSE JsonLoadsObject(s)

\* the except branch: the request's own itinerary and locations come back
RefineError(m) ==
    [status |-> "error", itinerary |-> m.itinerary,
     logs |-> <<LogLine("error_refinement")>>, locations |-> m.locations, options |-> <<>>]

\* the whole handler, given the request and what the model call produced
handle_refine_request(m, out) ==
    LET parsed == RefineLoads(out.text)
        with_ids == ensure_ids(parsed.value)
        logs0 == Get(with_ids, "logs", <<>>)
        \* logs.insert(0, ...) raises on a value that is no list
        with_logs == Put(with_ids, "logs", <<LogLine("refined")>> \o logs0)
        refined_data == enforce_no_overlaps(with_logs)
    IN  IF out.raised \/ ~parsed.ok THEN RefineError(m)
        ELSE IF ~IsList(logs0) THEN RefineError(m)
        ELSE IF ~Validates(refined_data) THEN RefineError(m)
        ELSE AgentPlanResponse(Put(refined_data, "options",
                                   Get(refined_data, "options", <<>>)))

\* A refine request arrives and is handled.  The handler reads nothing the
\* plan handler wrote and leaves _trip_dates alone, so its answer is the same
\* after any plan request; it is taken here from the states that hold no
\* plan response.
RefineStep ==
    /\ pc \in {"idle", "raised", "refined"}
    /\ \E m \in RefineRequests, out \in RefineOutcomes :
          /\ msg' = m
          /\ refine_reply' = out
          /\ response' = handle_refine_request(m, out)
    /\ pc' = "refined"
    /\ trip_context' = NoDates
    /\ logs' = <<>>
    /\ tool_plan' = <<>>
    /\ task_i' = 1
    /\ tool_results' = <<>>
    /\ fresh_results' = <<>>
    /\ clarification_needed' = FALSE
    /\ all_questions' = <<>>
    /\ calls' = NoCalls
    /\ plan_reply' = NoReply
    /\ synth_reply' = NoReply
    /\ backend_response' = NoResponse
    /\ UNCHANGED <<sched_vars, fun_vars, _trip_dates>>

\* the backend answers with HTTP 500 when its response model rejects the data
BackendFailure == [status_code |-> 500]

\* backend refine, the agent answered with 200: status is set to "success"
\* and itinerary, logs and locations are copied from the agent's answer
BackendForward(data) ==
    [status |-> "success", itinerary |-> data.itinerary, logs |-> data.logs,
     locations |-> data.locations]

\* The backend's ItineraryItem requires an id: an item whose id is missing
\* is rejected, one whose id is the empty text is accepted; both are the
\* id "" here, so both answers are possible for such an item.
BackendRefine ==
    /\ pc = "refined"
    /\ backend_response = NoResponse
    /\ backend_response' \in
          {BackendForward(response)}
          \cup (IF \E i \in DOMAIN response.itinerary : response.itinerary[i].id = ""
                THEN {BackendFailure} ELSE {})
    /\ UNCHANGED <<sched_vars, handler_vars, refine_reply, fun_vars>>

HandlerIdle ==
    /\ _trip_dates = NoDates
    /\ pc = "idle"
    /\ msg = NoRequest
    /\ trip_context = NoDates
    /\ logs = <<>>
    /\ tool_plan = <<>>
    /\ task_i = 1
    /\ tool_results = <<>>
    /\ fresh_results = <<>>
    /\ clarification_needed = FALSE
    /\ all_questions = <<>>
    /\ response = NoResponse
    /\ calls = NoCalls
    /\ plan_reply = NoReply
    /\ synth_reply = NoReply

\* no refine request was handled yet
RefineIdle ==
    /\ refine_reply = NoReply
    /\ backend_response = NoResponse

\* the function harness is not in use
NoArguments == [fn |-> "none"]
NoResult == [done |-> FALSE]

FunIdle ==
    /\ fun_in = NoArguments
    /\ fun_out = NoResult

(***************************************************************************)
(* Scheduler harness: enforce_no_overlaps applied to bounded plans         *)
(***************************************************************************)
\* texts of 2025-11-21
SchedStartMinutes == {600, 690, 705}
SchedEndMinutes == {690, 750}

SchedStarts ==
    {NoText, BadText} \cup {Full(21, m) : m \in SchedStartMinutes}

SchedEnds ==
    {NoText} \cup {Full(21, m) : m \in SchedEndMinutes}

SchedTitles == <<"Museum", "Lunch", "Dinner", "Show", "Walk">>

SchedTimes == [startTime : SchedStarts, endTime : SchedEnds]

SchedItem(i, t) ==
    [id |-> SchedTitles[i], title |-> SchedTitles[i],
     startTime |-> t.startTime, endTime |-> t.endTime]

SchedItineraries ==
    {[i \in DOMAIN ts |-> SchedItem(i, ts[i])] : ts \in SeqsUpTo(SchedTimes, MaxItems)}

SchedLogsKinds == {"absent", "list", "notalist"}

SchedPlan(items, kind) ==
    IF kind = "absent" THEN [itinerary |-> items]
    ELSE IF kind = "list" THEN [itinerary |-> items, logs |-> <<>>]
    ELSE [itinerary |-> items, logs |-> NotAList]

InitSched ==
    /\ HandlerIdle
    /\ RefineIdle
    /\ FunIdle
    /\ \E items \in SchedItineraries, kind \in SchedLogsKinds :
          /\ sched_plan = SchedPlan(items, kind)
          /\ sched_input = items
    /\ sched_prev = sched_plan
    /\ sched_runs = 0

\* the scheduler runs on the plan: first on the input, then on its own output
RunScheduler ==
    /\ sched_runs < 2
    /\ sched_prev' = sched_plan
    /\ sched_plan' = enforce_no_overlaps(sched_plan)
    /\ sched_runs' = sched_runs + 1
    /\ UNCHANGED <<sched_input, handler_vars, refine_vars, fun_vars>>

NextSched == RunScheduler

SpecSched == InitSched /\ [][NextSched]_vars

(***************************************************************************)
(* The agent serving plan requests                                         *)
(***************************************************************************)
SchedIdle ==
    /\ sched_plan = [itinerary |-> <<>>]
    /\ sched_prev = [itinerary |-> <<>>]
    /\ sched_input = <<>>
    /\ sched_runs = 0

Init == HandlerIdle /\ SchedIdle /\ RefineIdle /\ FunIdle

Next ==
    \/ StartRequest
    \/ PlanStage
    \/ ExecuteTask
    \/ CollectClarifications
    \/ SynthStage
    \/ RefineStep
    \/ BackendRefine

Spec == Init /\ [][Next]_vars

(***************************************************************************)
(* Function harness: the tools, the extractors and ensure_ids applied to   *)
(* bounded arguments                                                       *)
(***************************************************************************)
\* query texts by what the flight parser finds in them
FunQueries ==
    { Query(od, dates) : od \in {<<>>, <<"SFO", "SEA">>}, dates \in {<<>>, <<21>>, <<21, 23>>} }

\* values of the global _trip_dates
TripDateValues == {NoDates, [start_date |-> 21, end_date |-> 23]}

\* provider responses longer than the caps: eight properties without a name
\* before one with a name, and six properties with a name
LongHotelResponses ==
    { [properties |-> [i \in 1..(HotelProviderCap + 1) |->
                          Property(IF i <= HotelProviderCap THEN "" ELSE "Ace Hotel", FALSE)]],
      [properties |-> [i \in 1..(HotelCap + 1) |-> Property("Ace Hotel", FALSE)]] }

ToolCall(tool, query, provider, city, trip_dates) ==
    [fn |-> "tool", tool |-> tool, query |-> query, provider |-> provider,
     city |-> city, trip_dates |-> trip_dates]

ToolArguments ==
    { ToolCall("search_hotels", VagueQuery, p, USER_CITY, NoDates) :
        p \in HotelResponses \cup LongHotelResponses }
    \cup { ToolCall("search_events", VagueQuery, p, USER_CITY, d) :
             p \in EventResponses, d \in TripDateValues }
    \cup { ToolCall("search_flights", q, p, c, NoDates) :
             q \in FunQueries, p \in FlightResponses, c \in ProfileCities }

ArrayArguments == { [fn |-> "array", text |-> t] : t \in PlanTexts }

\* the synthesis texts, and an object followed by prose, a fenced object
\* after prose, and prose with the object inside the fences
ObjectTexts ==
    SynthTexts
    \cup { <<Members(BaseObject), RBrace, Prose>>,
           <<Prose, FenceJson, LBrace, Members(BaseObject), RBrace, Fence>>,
           <<FenceJson, Prose, LBrace, Members(BaseObject), RBrace, Fence>> }

ObjectArguments == { [fn |-> "object", text |-> t] : t \in ObjectTexts }

\* 20:00, no id
ItemD == Item("", "Show", Full(21, 1200), NoText)

\* plans given to ensure_ids, with and without an itinerary
IdPlans ==
    { [status |-> "success", itinerary |-> items] :
        items \in SeqsUpTo({ItemA, ItemB, ItemC, ItemD}, MaxItems) }
    \cup { [status |-> "success"] }

EnsureArguments == { [fn |-> "ensure_ids", plan |-> pl] : pl \in IdPlans }

(***************************************************************************)
(* The hosted planner: run_plan_pipeline_async                             *)
(***************************************************************************)
\* a step of a decomposition: whether it is an object, its tool_name, and
\* its parameters: a dict with the given keys, or a non-empty list
Step(is_dict, tool_name, kind, keys) ==
    [is_dict |-> is_dict, tool_name |-> tool_name,
     parameters |-> [kind |-> kind, keys |-> keys]]

_mock_decompose ==
    << Step(TRUE, "search_hotels", "dict", {"location", "checkin", "checkout"}),
       Step(TRUE, "search_events", "dict", {"location", "date"}),
       Step(TRUE, "search_flights", "dict", {"from", "to", "date"}) >>

\* the plan _mock_synthesize returns whatever data it is given
_mock_synthesize ==
    [itinerary |-> <<[id |-> "item_1"], [id |-> "item_2"], [id |-> "item_3"]>>,
     locations |-> <<[linkedItineraryId |-> "item_1"], [linkedItineraryId |-> "item_2"],
                     [linkedItineraryId |-> "item_3"]>>]

\* keyword parameters of mock_search_hotels, mock_search_events, mock_search_flights
MockKeywords(tool) ==
    IF tool = "search_hotels" THEN {"location", "checkin", "checkout"}
    ELSE IF tool = "search_events" THEN {"location", "date"}
    ELSE {"from_city", "to_city", "date"}

\* param_map.get(k, k)
param_map(k) == IF k = "from" THEN "from_city" ELSE IF k = "to" THEN "to_city" ELSE k

\* an iteration of the fallback loop raises: step.get on a step that is no
\* object, raw_params.items() on a list, or a mock called with a keyword it
\* does not have
StepRaises(step) ==
    \/ ~step.is_dict
    \/ step.parameters.kind # "dict"
    \/ /\ step.tool_name \in {"search_hotels", "search_events", "search_flights"}
       /\ ~({param_map(k) : k \in step.parameters.keys} \subseteq MockKeywords(step.tool_name))

\* steps the decomposition model may name
PipelineSteps ==
    { Step(TRUE, "search_hotels", "dict", {"location"}),
      Step(TRUE, "search_hotels", "dict", {"location", "guests"}),
      Step(TRUE, "search_flights", "dict", {"from", "to"}),
      Step(TRUE, "book_taxi", "dict", {"pickup"}),
      Step(TRUE, "book_taxi", "list", {}),
      Step(FALSE, "", "dict", {}) }

\* longest decomposition, in steps
MaxSteps == 2

\* what _ask_claude_for_json_async returns for the decomposition: {} (timeout,
\* error, no JSON in the text), an object with a steps list, a bare list, an
\* object whose steps is no list
DecompAnswers ==
    { [kind |-> "empty", steps |-> <<>>], [kind |-> "no_list", steps |-> <<>>] }
    \cup { [kind |-> k, steps |-> st] :
             k \in {"object", "list"}, st \in SeqsUpTo(PipelineSteps, MaxSteps) }

\* what asi_execute_steps returns: {} on any failure, else the three lists
AsiAnswers ==
    { [failed |-> TRUE, hotels |-> <<>>, events |-> <<>>, flights |-> <<>>],
      [failed |-> FALSE, hotels |-> <<>>, events |-> <<>>, flights |-> <<>>],
      [failed |-> FALSE, hotels |-> <<"Budget Inn">>, events |-> <<>>, flights |-> <<>>] }

\* what _ask_claude_for_json_async returns for the synthesis
SynthAnswers ==
    { [k \in {} |-> <<>>],
      [itinerary |-> <<[id |-> "x1"]>>],
      [itinerary |-> <<[id |-> "x1"]>>, locations |-> <<[linkedItineraryId |-> "x1"]>>] }

run_plan_pipeline_async(use_mock, decomp, asi, synth) ==
    LET steps == IF use_mock \/ decomp.kind \notin {"object", "list"}
                 THEN _mock_decompose ELSE decomp.steps
        no_data == asi.failed \/ (asi.hotels = <<>> /\ asi.events = <<>> /\ asi.flights = <<>>)
    IN  IF no_data /\ \E i \in DOMAIN steps : StepRaises(steps[i])
        THEN [raised |-> TRUE, value |-> [k \in {} |-> <<>>]]
        ELSE IF ~use_mock /\ {"itinerary", "locations"} \subseteq DOMAIN synth
        THEN [raised |-> FALSE, value |-> synth]
        ELSE [raised |-> FALSE, value |-> _mock_synthesize]

PipelineArguments ==
    { [fn |-> "plan_pipeline", use_mock |-> u, decomp |-> d, asi |-> a, synth |-> y] :
        u \in BOOLEAN, d \in DecompAnswers, a \in AsiAnswers, y \in SynthAnswers }

\* cabin_map, in the order the dict is iterated: phrase (as words) and class
cabin_map ==
    << [k |-> <<"economy">>, v |-> "ECONOMY"],
       [k |-> <<"premium", "economy">>, v |-> "PREMIUM_ECONOMY"],
       [k |-> <<"business">>, v |-> "BUSINESS"],
       [k |-> <<"first">>, v |-> "FIRST"] >>

\* re.search(rf"\b{k}\b", query, flags=re.IGNORECASE) on a query given as its
\* lower-case words: the words of k occur side by side
PhraseFound(k, words) ==
    \E i \in 1..(Len(words) - Len(k) + 1) : SubSeq(words, i, i + Len(k) - 1) = k

\* the loop over cabin_map.items(): the class of the first phrase found,
\* "" (None) when none is found
RECURSIVE CabinFrom(_, _)
CabinFrom(i, words) ==
    IF i > Len(cabin_map) THEN ""
    ELSE IF PhraseFound(cabin_map[i].k, words) THEN cabin_map[i].v
    ELSE CabinFrom(i + 1, words)

\* longest query, in words, given to the cabin loop
MaxCabinWords == 3

CabinWords == {"premium", "economy", "business", "first", "cheap"}

CabinArguments == { [fn |-> "cabin", words |-> w] : w \in SeqsUpTo(CabinWords, MaxCabinWords) }

\* pairs of items given to _conflicts
ConflictArguments ==
    { [fn |-> "conflicts", a |-> SchedItem(1, ta), b |-> SchedItem(2, tb)] :
        ta \in SchedTimes, tb \in SchedTimes }

Result(v) == [done |-> TRUE, value |-> v]

InitFun ==
    /\ HandlerIdle
    /\ SchedIdle
    /\ RefineIdle
    /\ fun_in \in ToolArguments \cup ArrayArguments \cup ObjectArguments \cup EnsureArguments
                  \cup ConflictArguments \cup CabinArguments \cup PipelineArguments
    /\ fun_out = NoResult

\* one of the three tools is called, current_profile.city and _trip_dates
\* being what the arguments say
ApplyTool ==
    /\ fun_in.fn = "tool"
    /\ ~fun_out.done
    /\ fun_out' = Result(IF fun_in.tool = "search_flights"
                         THEN search_real_flights(fun_in.query, fun_in.provider, fun_in.city)
                         ELSE RunTool(fun_in.tool, fun_in.query, fun_in.provider,
                                      fun_in.trip_dates))
    /\ UNCHANGED <<sched_vars, handler_vars, refine_vars, fun_in>>

ApplyArrayExtractor ==
    /\ fun_in.fn = "array"
    /\ ~fun_out.done
    /\ fun_out' = Result(safe_json_from_prefill_array(fun_in.text))
    /\ UNCHANGED <<sched_vars, handler_vars, refine_vars, fun_in>>

ApplyObjectExtractor ==
    /\ fun_in.fn = "object"
    /\ ~fun_out.done
    /\ fun_out' = Result(safe_json_from_prefill_object(fun_in.text))
    /\ UNCHANGED <<sched_vars, handler_vars, refine_vars, fun_in>>

ApplyEnsureIds ==
    /\ fun_in.fn = "ensure_ids"
    /\ ~fun_out.done
    /\ fun_out' = Result(ensure_ids(fun_in.plan))
    /\ UNCHANGED <<sched_vars, handler_vars, refine_vars, fun_in>>

\* _conflicts(a, b, buffer_minutes=30), as the scheduler calls it
ApplyConflicts ==
    /\ fun_in.fn = "conflicts"
    /\ ~fun_out.done
    /\ fun_out' = Result(_conflicts(fun_in.a, fun_in.b, BufferMinutes))
    /\ UNCHANGED <<sched_vars, handler_vars, refine_vars, fun_in>>

\* the cabin loop of search_real_flights
ApplyCabin ==
    /\ fun_in.fn = "cabin"
    /\ ~fun_out.done
    /\ fun_out' = Result(CabinFrom(1, fun_in.words))
    /\ UNCHANGED <<sched_vars, handler_vars, refine_vars, fun_in>>

ApplyPlanPipeline ==
    /\ fun_in.fn = "plan_pipeline"
    /\ ~fun_out.done
    /\ fun_out' = Result(run_plan_pipeline_async(fun_in.use_mock, fun_in.decomp, fun_in.asi,
                                                  fun_in.synth))
    /\ UNCHANGED <<sched_vars, handler_vars, refine_vars, fun_in>>

NextFun ==
    \/ ApplyPlanPipeline
    \/ ApplyCabin
    \/ ApplyConflicts
    \/ ApplyTool
    \/ ApplyArrayExtractor
    \/ ApplyObjectExtractor
    \/ ApplyEnsureIds

SpecFun == InitFun /\ [][NextFun]_vars

(***************************************************************************)
(* Properties of the scheduler                                             *)
(***************************************************************************)
\* effective end of an item with a parsable start: endTime, or start + 90 minutes
EffectiveEnd(x) ==
    IF _parse_iso(x.endTime) = None
    THEN _parse_iso(x.startTime) + DefaultDurationMinutes
    ELSE _parse_iso(x.endTime)

\* C1: after enforce_no_overlaps, any two kept items x, y with parsable starts
\* and x.start <= y.start satisfy y.start >= x.effective_end + 30 minutes
C1_BufferInvariant ==
    sched_runs >= 1 =>
        \A i, j \in DOMAIN sched_plan.itinerary :
            LET x == sched_plan.itinerary[i]
                y == sched_plan.itinerary[j]
            IN  (/\ i # j
                 /\ _parse_iso(x.startTime) # None
                 /\ _parse_iso(y.startTime) # None
                 /\ _parse_iso(x.startTime) <= _parse_iso(y.startTime))
                => _parse_iso(y.startTime) >= EffectiveEnd(x) + BufferMinutes

\* C7: running enforce_no_overlaps on its own output changes nothing: same
\* items in the same order, nothing dropped, no log line appended
C7_SchedulerIdempotent ==
    sched_runs = 2 => sched_plan = sched_prev

\* the scheduler ran twice on an input of which the first run dropped an item
\* and logged the removal
C7_Witness ==
    /\ sched_runs = 2
    /\ Len(sched_input) = 3
    /\ Len(sched_plan.itinerary) = 2
    /\ "logs" \in DOMAIN sched_plan
    /\ \E i \in DOMAIN sched_plan.logs : sched_plan.logs[i].kind = "conflict_removed"

(***************************************************************************)
(* Properties of handle_plan_request                                       *)
(***************************************************************************)
\* C2: in every plan response whose status is not error, each location's
\* linkedItineraryId is the id of an item of the returned itinerary
C2_LocationsLinked ==
    (pc = "done" /\ response.status # "error") =>
        \A i \in DOMAIN response.locations :
            \E j \in DOMAIN response.itinerary :
                response.itinerary[j].id = response.locations[i].linkedItineraryId

\* C3: the handler never ends by raising, and every response has a status in
\* {success, needs_clarification, error} and itinerary, logs and locations
C3_AlwaysResponds ==
    /\ pc # "raised"
    /\ pc = "done" =>
          /\ {"status", "itinerary", "logs", "locations"} \subseteq DOMAIN response
          /\ response.status \in {"success", "needs_clarification", "error"}

\* C4: when at least one executed tool result carries user_prompt_needed =
\* true, the status of the plan response is needs_clarification
C4_ClarificationStatus ==
    (pc = "done" /\ \E i \in DOMAIN tool_results : Signals(tool_results[i].result)) =>
        response.status = "needs_clarification"

\* C5: the suggested_questions of the tool results that signal clarification
\* appear, in task order, in the logs of the returned plan response
C5_QuestionsInResponseLogs ==
    pc = "done" =>
        LET qs == Questions(tool_results)
            ls == response.logs
        IN  \E f \in [DOMAIN qs -> DOMAIN ls] :
                /\ \A i, j \in DOMAIN qs : i < j => f[i] < f[j]
                /\ \A i \in DOMAIN qs :
                      /\ ls[f[i]].kind = "question"
                      /\ ls[f[i]].text = qs[i]

\* C6: the tool results of a request are those the same request and the same
\* provider answers give in a process that handled no earlier request: trip
\* dates of an earlier request do not reach the event filter of a later one
C6_NoCarryOver ==
    pc \in {"executing", "synthesis", "done"} => tool_results = fresh_results

\* C8: if the synthesis model call raises, its text cannot be parsed, or the
\* parsed object lacks one of status, itinerary, logs, locations, the plan
\* response has status error and an empty itinerary
C8_SynthesisFailureIsError ==
    (pc = "done" /\ synth_reply # NoReply) =>
        LET parsed == safe_json_from_prefill_object(synth_reply.text)
            failed == \/ synth_reply.raised
                      \/ ~parsed.ok
                      \/ ~(RequiredKeys \subseteq DOMAIN parsed.value)
        IN  failed => (response.status = "error" /\ response.itinerary = <<>>)

\* C9: if the planning model call raises or safe_json_from_prefill_array
\* cannot parse its text into a list, the request ends with status error,
\* empty itinerary and locations and a log line naming the planning phase,
\* and neither a search tool nor the synthesis model is called
C9_PlanningFailureStops ==
    (/\ plan_reply # NoReply
     /\ plan_reply.raised \/ ~safe_json_from_prefill_array(plan_reply.text).ok)
    => /\ pc = "done"
       /\ response.status = "error"
       /\ response.itinerary = <<>>
       /\ response.locations = <<>>
       /\ \E i \in DOMAIN response.logs : response.logs[i] = LogLine("error_planning")
       /\ calls.tools = 0
       /\ calls.synth = 0
       /\ tool_results = <<>>

\* the planning model returned a text with a task in it that cannot be
\* parsed, and the request ended with the error response
C9_Witness ==
    /\ pc = "done"
    /\ plan_reply # NoReply
    /\ ~plan_reply.raised
    /\ \E i \in DOMAIN plan_reply.text : plan_reply.text[i].t = "value"
    /\ ~safe_json_from_prefill_array(plan_reply.text).ok
    /\ response.status = "error"
    /\ calls.plan = 1

\* C10: every tool result that is not normalized data carries an error text,
\* user_prompt_needed = true and a non-empty suggested_questions list
C10_CompleteSignals ==
    \A i \in DOMAIN tool_results :
        LET r == tool_results[i].result
        IN  \/ DOMAIN r \cap {"hotels", "events", "results"} # {}
            \/ /\ Get(r, "error", "") # ""
               /\ Get(r, "user_prompt_needed", FALSE) = TRUE
               /\ Get(r, "suggested_questions", <<>>) # <<>>

\* C11: the execution loop never aborts, and after the tasks it has gone
\* through there is exactly one {tool, query, result} triple per task with a
\* known tool_name, in plan order, and one warning line and no triple per
\* task with an unknown tool_name
C11_OneTriplePerKnownTask ==
    /\ pc = "raised" => plan_reply = NoReply
    /\ (pc \in {"executing", "synthesis"} \/ (pc = "done" /\ synth_reply # NoReply)) =>
          LET gone == SubSeq(tool_plan, 1, task_i - 1)
              Known(t) == IsDict(t) /\ t.tool_name \in AVAILABLE_TOOLS
              Unknown(t) == IsDict(t) /\ t.tool_name \notin AVAILABLE_TOOLS
              IsWarning(l) == l.kind = "unknown_tool"
              known == SelectSeq(gone, Known)
          IN  /\ Len(tool_results) = Len(known)
              /\ \A i \in DOMAIN tool_results :
                    /\ tool_results[i].tool = known[i].tool_name
                    /\ tool_results[i].query = known[i].query
                    /\ "result" \in DOMAIN tool_results[i]
              /\ Len(SelectSeq(logs, IsWarning)) = Len(SelectSeq(gone, Unknown))
              /\ pc # "executing" => task_i = Len(tool_plan) + 1

\* C12: every normalized flight, hotel and event record of the tool results
\* is the data of an entry of the options of the plan response
C12_EveryRecordIsAnOption ==
    (pc = "done" /\ response.status # "error") =>
        \A i \in DOMAIN tool_results :
            LET r == tool_results[i].result
                records == Get(r, "hotels", <<>>) \o Get(r, "events", <<>>)
                           \o AllFlights(r)
            IN  \A k \in DOMAIN records :
                    \E j \in DOMAIN response.options :
                        /\ "data" \in DOMAIN response.options[j]
                        /\ response.options[j].data = records[k]

(***************************************************************************)
(* Properties of the refine flow and of the identifiers                    *)
(***************************************************************************)
\* C13: in every refine response, of the agent and of the backend that
\* forwards it, each location's linkedItineraryId is the id of an item of
\* the returned itinerary
C13_RefineLocationsLinked ==
    LET Linked(r) ==
            \A i \in DOMAIN r.locations :
                \E j \in DOMAIN r.itinerary :
                    r.itinerary[j].id = r.locations[i].linkedItineraryId
    IN  /\ pc = "refined" => Linked(response)
        /\ backend_response \notin {NoResponse, BackendFailure} => Linked(backend_response)

\* C14: every item of a non-error plan or refine response of the agent has a
\* non-empty id; an item whose id is empty in the model output comes back
\* with a generated id and is otherwise unchanged, and every other returned
\* item is an item of the model output
C14_ItemsHaveIds ==
    (pc \in {"done", "refined"} /\ response.status # "error") =>
        LET output == IF pc = "done"
                      THEN safe_json_from_prefill_object(synth_reply.text).value
                      ELSE RefineLoads(refine_reply.text).value
        IN  \A i \in DOMAIN response.itinerary :
                LET item == response.itinerary[i]
                IN  /\ item.id # ""
                    /\ \E j \in DOMAIN output.itinerary :
                          \/ output.itinerary[j] = item
                          \/ /\ output.itinerary[j].id = ""
                             /\ item.id \in Range(FreshIds)
                             /\ [item EXCEPT !.id = ""] = output.itinerary[j]

\* a refine response that is no error and holds an item whose id was generated
C14_Witness ==
    /\ pc = "refined"
    /\ response.status # "error"
    /\ \E i \in DOMAIN response.itinerary :
          /\ response.itinerary[i].id = FreshIds[1]
          /\ response.itinerary[i].title = "Dinner"

\* C20: for every item the scheduler drops, the logs of the plan it returns
\* hold the conflict_removed entry with that item's title and startTime,
\* whether or not the input plan has a logs list
C20_DroppedItemsLogged ==
    sched_runs >= 1 =>
        \A i \in DOMAIN sched_input :
            (\A j \in DOMAIN sched_plan.itinerary : sched_plan.itinerary[j] # sched_input[i])
            => /\ "logs" \in DOMAIN sched_plan
               /\ \E k \in DOMAIN sched_plan.logs :
                     sched_plan.logs[k] = ConflictLog(sched_input[i])

(***************************************************************************)
(* Properties of the tools, the extractors and ensure_ids                  *)
(***************************************************************************)
\* C15: a tool result that does not signal clarification holds at least one
\* normalized record, and an empty provider response gives a clarification
\* signal with user_prompt_needed = true and at least one suggested question
C15_DataOrClarification ==
    (fun_in.fn = "tool" /\ fun_out.done) =>
        LET r == fun_out.value
            records == Get(r, "hotels", <<>>) \o Get(r, "events", <<>>) \o AllFlights(r)
            empty_answer ==
                \/ fun_in.tool = "search_hotels" /\ fun_in.provider = [properties |-> <<>>]
                \/ /\ fun_in.tool = "search_events"
                   /\ fun_in.provider = [a |-> [events_results |-> <<>>],
                                         b |-> [events_results |-> <<>>],
                                         c |-> [organic_results |-> <<>>]]
                \/ fun_in.tool = "search_flights" /\ fun_in.provider = [best |-> <<>>]
        IN  /\ Signals(r) \/ records # <<>>
            /\ empty_answer => (Signals(r) /\ Get(r, "suggested_questions", <<>>) # <<>>)

\* C16 as stated: when origin, destination or departure date cannot be
\* determined, search_real_flights returns a clarification signal whose
\* questions include the one about the airports, with a home-city airport
\* hint first whenever the origin is the missing field, and the result does
\* not depend on find_flights
C16_MissingFieldsAsStated ==
    (fun_in.fn = "tool" /\ fun_in.tool = "search_flights" /\ fun_out.done) =>
        LET q == fun_in.query
            r == fun_out.value
            origin == IF q.od # <<>> THEN q.od[1] ELSE infer_home_airport(fun_in.city)
            missing == origin = "" \/ q.od = <<>> \/ q.dates = <<>>
        IN  missing =>
              /\ Signals(r)
              /\ \E i \in DOMAIN r.suggested_questions :
                    r.suggested_questions[i] = MissingFieldQuestions[1]
              /\ origin = "" =>
                    r.suggested_questions[1] \in {HomeHint(c) : c \in ProfileCities \ {""}}
              /\ \A p \in FlightResponses : search_real_flights(q, p, fun_in.city) = r

\* C16: as above, the home-city airport hint being first when the origin is
\* the missing field and the profile has a city; with an empty profile city
\* the questions are the three standard ones
C16_MissingFields ==
    (fun_in.fn = "tool" /\ fun_in.tool = "search_flights" /\ fun_out.done) =>
        LET q == fun_in.query
            r == fun_out.value
            questions == Get(r, "suggested_questions", <<>>)
            origin == IF q.od # <<>> THEN q.od[1] ELSE infer_home_airport(fun_in.city)
            missing == origin = "" \/ q.od = <<>> \/ q.dates = <<>>
        IN  missing =>
              /\ Signals(r)
              /\ Get(r, "error", "") = "Missing origin/destination/depart_date"
              /\ \E i \in DOMAIN questions : questions[i] = MissingFieldQuestions[1]
              /\ (origin = "" /\ fun_in.city # "") =>
                    questions = <<HomeHint(fun_in.city)>> \o MissingFieldQuestions
              /\ (origin # "" \/ fun_in.city = "") =>
                    questions = MissingFieldQuestions
              /\ \A p \in FlightResponses : search_real_flights(q, p, fun_in.city) = r

\* a query without airports, a profile city the airport table does not know,
\* a find_flights that would raise: the hint for that city is the first question
C16_Witness ==
    /\ fun_in.fn = "tool"
    /\ fun_in.tool = "search_flights"
    /\ fun_in.query.od = <<>>
    /\ fun_in.city = "Paris, France"
    /\ fun_in.provider = Raise
    /\ fun_out.done
    /\ fun_out.value.suggested_questions[1] = HomeHint("Paris, France")

\* C17: a text that holds one complete JSON object, with prose or fences
\* before or after it, or one complete array continuation with prose before
\* or after it, is extracted to a value equal to the original
C17_ExtractorRoundTrip ==
    /\ (fun_in.fn = "object" /\ fun_out.done) =>
          LET text == fun_in.text
              Wrapping(i) == text[i] \in {Prose, Fence, FenceJson}
          IN  \A i \in DOMAIN text :
                  (/\ text[i].t = "members"
                   /\ i < Len(text)
                   /\ text[i + 1] = RBrace
                   /\ i > 1 => text[i - 1] = LBrace
                   /\ \A j \in DOMAIN text : j \notin {i - 1, i, i + 1} => Wrapping(j))
                  => (fun_out.value.ok /\ fun_out.value.value = text[i].v)
    /\ (fun_in.fn = "array" /\ fun_out.done) =>
          LET text == fun_in.text
              inside == {i \in DOMAIN text : text[i] # Prose}
          IN  \A lo, hi \in inside :
                  LET core == <<LBracket>> \o SubSeq(text, lo, hi)
                  IN  (/\ \A i \in inside : lo <= i /\ i <= hi
                       /\ text[hi] = RBracket
                       /\ JsonLoadsArray(core).ok)
                      => (fun_out.value.ok /\ fun_out.value.value = JsonLoadsArray(core).value)

\* C18 as stated: for an unterminated continuation of two complete
\* elements, the array extractor returns the list of the first element or
\* fails
C18_TruncationAsStated ==
    (fun_in.fn = "array" /\ fun_out.done /\ Len(fun_in.text) = 3
       /\ fun_in.text[1].t = "value" /\ fun_in.text[2] = Comma /\ fun_in.text[3].t = "value")
    => (~fun_out.value.ok \/ fun_out.value.value = <<fun_in.text[1].v>>)

\* C18: for a continuation without closing bracket, the array extractor
\* fails or returns every element of the text, in order; it returns all of
\* them when the text is complete elements separated by commas
C18_TruncationRecovery ==
    (fun_in.fn = "array" /\ fun_out.done /\ FirstIndex(fun_in.text, RBracket) = 0) =>
        LET text == fun_in.text
            IsValue(tok) == tok.t = "value"
            values == SelectSeq(text, IsValue)
            elements == [i \in DOMAIN values |-> values[i].v]
            separated == /\ Len(text) % 2 = 1
                         /\ \A i \in DOMAIN text :
                               IF i % 2 = 1 THEN text[i].t = "value" ELSE text[i] = Comma
        IN  /\ fun_out.value.ok => fun_out.value.value = elements
            /\ separated => fun_out.value.ok

\* the unterminated continuation of two complete elements was extracted
C18_Witness ==
    /\ fun_in.fn = "array"
    /\ Len(fun_in.text) = 3
    /\ fun_in.text[1].t = "value" /\ fun_in.text[2] = Comma /\ fun_in.text[3].t = "value"
    /\ fun_out.done
    /\ fun_out.value.ok
    /\ Len(fun_out.value.value) = 2

\* C19: ensure_ids leaves every item with a non-empty id as it is, gives
\* every other item an id and changes nothing else, and a second
\* application changes nothing
C19_EnsureIdsPreserves ==
    (fun_in.fn = "ensure_ids" /\ fun_out.done) =>
        LET before == fun_in.plan
            after == fun_out.value
        IN  /\ DOMAIN after = DOMAIN before
            /\ \A k \in DOMAIN before : k # "itinerary" => after[k] = before[k]
            /\ "itinerary" \in DOMAIN before =>
                  /\ Len(after.itinerary) = Len(before.itinerary)
                  /\ \A i \in DOMAIN before.itinerary :
                        IF before.itinerary[i].id # ""
                        THEN after.itinerary[i] = before.itinerary[i]
                        ELSE /\ after.itinerary[i].id # ""
                             /\ [after.itinerary[i] EXCEPT !.id = ""] = before.itinerary[i]
            /\ ensure_ids(after) = after

\* ensure_ids ran on a plan with an item that has an id and one that has none
C19_Witness ==
    /\ fun_in.fn = "ensure_ids"
    /\ fun_out.done
    /\ "itinerary" \in DOMAIN fun_in.plan
    /\ \E i, j \in DOMAIN fun_in.plan.itinerary :
          /\ fun_in.plan.itinerary[i].id = "a"
          /\ fun_out.value.itinerary[i].id = "a"
          /\ fun_in.plan.itinerary[j].id = ""
          /\ fun_out.value.itinerary[j].id # ""

(***************************************************************************)
(* Properties of the scheduler: what is dropped, and the order returned    *)
(***************************************************************************)
\* C27: the conflict test with the 30-minute buffer is symmetric: the result
\* of _conflicts(a, b) is the result of _conflicts(b, a)
C27_ConflictsSymmetric ==
    (fun_in.fn = "conflicts" /\ fun_out.done) =>
        fun_out.value = _conflicts(fun_in.b, fun_in.a, BufferMinutes)

C22_ReturnedInOrder ==
    sched_runs >= 1 =>
        LET out == sched_plan.itinerary
            Start(x) == _parse_iso(x.startTime)
        IN  \A i, j \in DOMAIN out :
                i < j =>
                    \/ Start(out[j]) = None
                    \/ Start(out[i]) # None /\ Start(out[i]) <= Start(out[j])

\* an input out of order, an item without a parsable start first, from which
\* nothing was dropped
C22_Witness ==
    /\ sched_runs = 1
    /\ Len(sched_input) = 3
    /\ _parse_iso(sched_input[1].startTime) = None
    /\ _parse_iso(sched_input[2].startTime) # None
    /\ _parse_iso(sched_input[3].startTime) # None
    /\ _parse_iso(sched_input[3].startTime) < _parse_iso(sched_input[2].startTime)
    /\ Len(sched_plan.itinerary) = 3
    /\ sched_plan.itinerary[3] = sched_input[1]
    /\ sched_plan.itinerary[1] = sched_input[3]

(***************************************************************************)
(* Properties of the event search                                          *)
(***************************************************************************)
\* C23: an event search queries the tiers in the order strict (a), relaxed
\* (b), web fallback (c); (b) is queried only if (a) yielded no accepted
\* event, (c) only if (b) yielded none either, and no tier is queried after
\* one that yielded an accepted event: the result does not depend on what a
\* later tier would answer
C23_TiersInOrder ==
    (fun_in.fn = "tool" /\ fun_in.tool = "search_events" /\ fun_out.done) =>
        LET p == fun_in.provider
            made == GoogleSearchCalls(p, fun_in.trip_dates)
            Queried(t) == \E i \in DOMAIN made : made[i] = t
            Accepted(t) ==
                IF Raised(p[t]) THEN <<>>
                ELSE IF t = "c" THEN WebEvents(p[t].organic_results)
                ELSE normalize(p[t].events_results, fun_in.trip_dates)
        IN  /\ made \in {<<"a">>, <<"a", "b">>, <<"a", "b", "c">>}
            /\ Queried("b") => Accepted("a") = <<>>
            /\ Queried("c") => Accepted("a") = <<>> /\ Accepted("b") = <<>>
            /\ \A i \in DOMAIN made : Accepted(made[i]) # <<>> => i = Len(made)
            /\ \A other \in EventResponses :
                  (\A i \in DOMAIN made : other[made[i]] = p[made[i]])
                  => search_real_events(fun_in.query, other, fun_in.trip_dates) = fun_out.value

\* the strict tier yielded an event the trip dates reject, the relaxed tier
\* an accepted one, and the web fallback would have raised
C23_Witness ==
    /\ fun_in.fn = "tool"
    /\ fun_in.tool = "search_events"
    /\ fun_in.trip_dates = [start_date |-> 21, end_date |-> 23]
    /\ fun_in.provider = [a |-> [events_results |-> <<RawEvent("Festival", 35)>>],
                          b |-> [events_results |-> <<RawEvent("Concert", 22)>>],
                          c |-> Raise]
    /\ fun_out.done
    /\ "events" \in DOMAIN fun_out.value
    /\ fun_out.value.events[1].title = "Concert"

\* C24: every event an event search returns has a title and a start date
\* and, when the trip dates are known, a start date within
\* [trip start, trip end + 7 days], whichever tier produced it
C24_SameFilterEveryTier ==
    (fun_in.fn = "tool" /\ fun_in.tool = "search_events" /\ fun_out.done
       /\ "events" \in DOMAIN fun_out.value) =>
        \A i \in DOMAIN fun_out.value.events :
            LET ev == fun_out.value.events[i]
                td == fun_in.trip_dates
            IN  /\ ev.title # ""
                /\ ev.start_date # 0
                /\ (td.start_date # 0 /\ td.end_date # 0) =>
                      /\ td.start_date <= ev.start_date
                      /\ ev.start_date <= td.end_date + TripEndSlackDays

(***************************************************************************)
(* Properties of handle_plan_request: model calls, trip dates              *)
(***************************************************************************)
\* C25: in one plan request the planning model is called exactly once, no
\* model is called a second time, the synthesis model is called only after
\* planning succeeded and after the loop went through every planned task
C25_ModelCallsOnce ==
    pc \notin {"idle", "refined"} =>
        /\ calls.plan <= 1
        /\ calls.synth <= 1
        /\ pc \in {"executing", "synthesis", "done", "raised"} => calls.plan = 1
        /\ pc = "synthesis" => task_i > Len(tool_plan)
        /\ calls.synth = 1 =>
              /\ ~plan_reply.raised
              /\ safe_json_from_prefill_array(plan_reply.text).ok
              /\ task_i > Len(tool_plan)

\* C28: for a plan request with an empty itinerary and a non-empty history,
\* extract_trip_context returns and the trip dates are the earliest and the
\* latest date of the last five messages; when the itinerary has items with
\* a startTime, the trip dates are those of the itinerary alone
C28_TripDatesFromContext ==
    pc \notin {"idle", "refined"} =>
        LET conv == MessageDates(LastN(msg.conversation_history, HistoryWindow))
            items == ItemDates(msg.itinerary)
        IN  /\ (msg.itinerary = <<>> /\ msg.conversation_history # <<>>) =>
                  /\ pc # "raised"
                  /\ conv # <<>> => _trip_dates = DateRange(conv)
            /\ items # <<>> => _trip_dates = DateRange(items)

(***************************************************************************)
(* Properties of the flight query interpreter and the hotel search         *)
(***************************************************************************)
\* C29: a flight query containing the phrase premium economy (and neither
\* business nor first) is parsed as PREMIUM_ECONOMY, one containing economy
\* alone as ECONOMY, business alone as BUSINESS, first alone as FIRST, and a
\* query with none of these words has no cabin
C29_CabinByPhrase ==
    (fun_in.fn = "cabin" /\ fun_out.done) =>
        LET w == fun_in.words
            Has(x) == \E i \in DOMAIN w : w[i] = x
            premium == \E i \in DOMAIN w : i > 1 /\ w[i] = "economy" /\ w[i - 1] = "premium"
            plain == \E i \in DOMAIN w : w[i] = "economy" /\ (i = 1 \/ w[i - 1] # "premium")
        IN  /\ (premium /\ ~plain /\ ~Has("business") /\ ~Has("first"))
                  => fun_out.value = "PREMIUM_ECONOMY"
            /\ (plain /\ ~premium /\ ~Has("business") /\ ~Has("first"))
                  => fun_out.value = "ECONOMY"
            /\ (Has("business") /\ ~Has("economy") /\ ~Has("first"))
                  => fun_out.value = "BUSINESS"
            /\ (Has("first") /\ ~Has("economy") /\ ~Has("business"))
                  => fun_out.value = "FIRST"
            /\ (~Has("economy") /\ ~Has("business") /\ ~Has("first"))
                  => fun_out.value = ""

\* C30: search_real_hotels returns the No hotels found clarification only
\* when no property of the provider response has a name; when a property has
\* a name the result is a non-empty hotels list of at most 5 records, each
\* with a name
C30_NamedPropertyIsReturned ==
    (fun_in.fn = "tool" /\ fun_in.tool = "search_hotels" /\ fun_out.done
       /\ ~Raised(fun_in.provider)) =>
        LET props == fun_in.provider.properties
            r == fun_out.value
            named == \E i \in DOMAIN props : props[i].name # ""
        IN  /\ Get(r, "error", "") = "No hotels found for that query" => ~named
            /\ named =>
                  /\ "hotels" \in DOMAIN r
                  /\ r.hotels # <<>>
                  /\ Len(r.hotels) <= HotelCap
                  /\ \A i \in DOMAIN r.hotels : r.hotels[i].name # ""

(***************************************************************************)
(* Properties of the hosted planner                                        *)
(***************************************************************************)
\* C26: run_plan_pipeline_async returns an object with itinerary and
\* locations whatever the decomposition model, the ASI execution step and
\* the synthesis model return
C26_PipelineAlwaysReturns ==
    (fun_in.fn = "plan_pipeline" /\ fun_out.done) =>
        /\ ~fun_out.value.raised
        /\ {"itinerary", "locations"} \subseteq DOMAIN fun_out.value.value

====
